---- MODULE Spec2Model ----
(***************************************************************************)
(* Model of package bsplines (bsplines.go): construction of a clamped      *)
(* B-spline, its configuration calls, the Cox-de Boor basis recursion,     *)
(* evaluation with extrapolation, and the derivative spline; and of        *)
(* package gomlx (gomlx/gomlx.go): the evaluation over whole arrays.       *)
(*                                                                         *)
(* Four specifications: Spec interleaves the calls on one spline;          *)
(* SpecEval applies Evaluate and BasisFunction to every configured spline; *)
(* SpecDerivative interleaves calls on a spline and on its derivative;     *)
(* SpecBatch applies gomlx.Evaluate to every spline.                       *)
(*                                                                         *)
(* float64 values are modelled as exact extended rationals: a pair         *)
(* <<n, d>> in lowest terms with d > 0, or one of the IEEE-754 special     *)
(* values NaN = <<0,0>>, +Inf = <<1,0>>, -Inf = <<-1,0>>.  Rounding is not *)
(* modelled; division by zero, NaN propagation and NaN comparisons are.    *)
(* Go slices are sequences; Go index i is TLA+ index i+1.                  *)
(***************************************************************************)
EXTENDS Integers, Sequences, FiniteSets, TLC

VARIABLES b, result, derivative

vars == <<b, result, derivative>>

----------------------------------------------------------------------------
(* Bounds of the model. *)

\* Largest degree passed to New / NewRegular (the smallest is -1).
MaxDegree == 2
\* Largest number of knots passed to New.
MaxNumKnots == 3
\* Knot values are drawn from {0, 1, MaxKnotValue}: with MaxKnotValue > 2 the
\* three-knot vector is not evenly spaced.
MaxKnotValue == 3

----------------------------------------------------------------------------
(* float64 arithmetic on extended rationals. *)

NaN == <<0, 0>>
PosInf == <<1, 0>>
NegInf == <<-1, 0>>

Abs(n) == IF n < 0 THEN -n ELSE n

Sign(n) == IF n < 0 THEN -1 ELSE IF n > 0 THEN 1 ELSE 0

RECURSIVE Gcd(_, _)
Gcd(m, n) == IF n = 0 THEN m ELSE Gcd(n, m % n)

\* The rational n/d, d # 0, in lowest terms with a positive denominator.
Norm(n, d) ==
    IF d = 1 THEN <<n, 1>>
    ELSE LET g == Gcd(Abs(n), Abs(d))
         IN  IF d < 0 THEN <<(-n) \div g, (-d) \div g>> ELSE <<n \div g, d \div g>>

\* float64(i) for a Go int i.
F(i) == <<i, 1>>

IsNaN(x) == x = NaN
IsInf(x) == x[2] = 0 /\ x[1] # 0
IsFinite(x) == x[2] # 0

FNeg(x) == <<-x[1], x[2]>>

FAdd(x, y) ==
    IF x[2] # 0 /\ y[2] # 0
    THEN Norm(x[1] * y[2] + y[1] * x[2], x[2] * y[2])
    ELSE IF IsNaN(x) \/ IsNaN(y) THEN NaN
    ELSE IF IsInf(x) /\ IsInf(y) THEN (IF x = y THEN x ELSE NaN)
    ELSE IF IsInf(x) THEN x
    ELSE y

FSub(x, y) == FAdd(x, FNeg(y))

FMul(x, y) ==
    IF x[2] # 0 /\ y[2] # 0
    THEN Norm(x[1] * y[1], x[2] * y[2])
    ELSE IF IsNaN(x) \/ IsNaN(y) THEN NaN
    ELSE IF x[1] = 0 \/ y[1] = 0 THEN NaN
    ELSE <<Sign(x[1]) * Sign(y[1]), 0>>

\* A zero divisor is +0 (the difference of two equal finite values).
FDiv(x, y) ==
    IF x[2] # 0 /\ y[2] # 0 /\ y[1] # 0
    THEN Norm(x[1] * y[2], x[2] * y[1])
    ELSE IF IsNaN(x) \/ IsNaN(y) THEN NaN
    ELSE IF IsInf(x) THEN (IF IsInf(y) THEN NaN
                           ELSE <<Sign(x[1]) * (IF y[1] < 0 THEN -1 ELSE 1), 0>>)
    ELSE IF IsInf(y) THEN F(0)
    ELSE IF x[1] = 0 THEN NaN
    ELSE <<Sign(x[1]), 0>>

\* Go's x < y: false when either side is NaN.
FLt(x, y) ==
    IF x[2] # 0 /\ y[2] # 0 THEN x[1] * y[2] < y[1] * x[2]
    ELSE IF IsNaN(x) \/ IsNaN(y) THEN FALSE
    ELSE IF x = y THEN FALSE
    ELSE x = NegInf \/ y = PosInf

\* Go's x == y, x != y, x >= y, x <= y.
FEq(x, y) == ~IsNaN(x) /\ ~IsNaN(y) /\ x = y
FNe(x, y) == ~FEq(x, y)
FGe(x, y) == FLt(y, x) \/ FEq(x, y)
FLe(x, y) == FLt(x, y) \/ FEq(x, y)

----------------------------------------------------------------------------
(* Slices. *)

\* slice[idx] for a Go index idx that is in range.
Get(slice, idx) == slice[idx + 1]

InRange(slice, idx) == idx >= 0 /\ idx < Len(slice)

\* at(slice, idx): negative indices count from the end of the slice.
at(slice, idx) == IF idx < 0 THEN Get(slice, Len(slice) + idx) ELSE Get(slice, idx)

\* Whether at(slice, idx) indexes inside the slice (otherwise Go panics).
atInRange(slice, idx) ==
    IF idx < 0 THEN InRange(slice, Len(slice) + idx) ELSE InRange(slice, idx)

\* slices.IsSortedFunc(knots, cmp) with the comparison New passes:
\* cmp(a, b) is -1 when a < b and 1 otherwise.  IsSortedFunc reports unsorted
\* exactly when cmp(x[i], x[i-1]) < 0 for some i.
cmp(x, y) == IF FLt(x, y) THEN -1 ELSE 1

IsSortedFunc(x) ==
    \A i \in 1..(Len(x) - 1) : ~(cmp(Get(x, i), Get(x, i - 1)) < 0)

\* Sum of a sequence of float64 values, added left to right starting from 0.
RECURSIVE SumSeq(_)
SumSeq(s) ==
    IF Len(s) = 0 THEN F(0)
    ELSE FAdd(SumSeq(SubSeq(s, 1, Len(s) - 1)), s[Len(s)])

----------------------------------------------------------------------------
(* ExtrapolationType *)

ExtrapolateZero == 0
ExtrapolateConstant == 1
ExtrapolateLinear == 2

ExtrapolationTypes == {ExtrapolateZero, ExtrapolateConstant, ExtrapolateLinear}

----------------------------------------------------------------------------
(* Outcomes of a call.  exceptions.Panicf in New, NewRegular and           *)
(* WithControlPoints is the InvalidArgument failure, exceptions.Panicf in  *)
(* Evaluate is the InvalidState failure; a Go runtime panic (index or      *)
(* slice bounds out of range, makeslice with a negative length) is         *)
(* RuntimeError.                                                           *)

Ok == "ok"
InvalidArgument == "InvalidArgument"
InvalidState == "InvalidState"
RuntimeError == "RuntimeError"

NoSpline == [none |-> TRUE]
NoValue == [none |-> TRUE]

Returned(v) == [kind |-> Ok, value |-> v]
Failed(k) == [kind |-> k, value |-> NoValue]

----------------------------------------------------------------------------
(* BSpline accessors. *)

\* b.Knots(): the expanded knots without the degree clamping copies at each end.
Knots(s) == SubSeq(s.expandedKnots, s.degree + 1, Len(s.expandedKnots) - s.degree)

\* b.NumControlPoints()
NumControlPoints(s) == Len(Knots(s)) + s.degree - 1

\* b.ControlPointsX(): xs is zero-initialised; entry ii is expandedKnots[0]
\* for ii = 0, the last expanded knot when ii == len(expandedKnots)-1, and
\* otherwise the sum of degree expanded knots from ii+1 divided by
\* float64(degree).
ControlPointsX(s) ==
    [ii0 \in 1..NumControlPoints(s) |->
        LET ii == ii0 - 1
        IN  IF ii = 0 THEN Get(s.expandedKnots, 0)
            ELSE IF ii = Len(s.expandedKnots) - 1
                 THEN Get(s.expandedKnots, Len(s.expandedKnots) - 1)
            ELSE FDiv(SumSeq([jj0 \in 1..s.degree |->
                                 Get(s.expandedKnots, ii + (jj0 - 1) + 1)]),
                      F(s.degree))]

----------------------------------------------------------------------------
(* Construction. *)

\* The expanded knot vector with knots[0] copied at both ends.
ExpandKnots_FirstKnotAtBothEnds(degree, knots) ==
    [k0 \in 1..(Len(knots) + 2 * degree) |->
        LET k == k0 - 1
        IN  IF k < degree THEN Get(knots, 0)
            ELSE IF k >= Len(knots) + degree THEN Get(knots, 0)
            ELSE Get(knots, k - degree)]

\* The expanded knot vector New builds: degree copies of knots[0], the knots,
\* degree copies of knots[-1].
ExpandKnots(degree, knots) ==
    [k0 \in 1..(Len(knots) + 2 * degree) |->
        LET k == k0 - 1
        IN  IF k < degree THEN Get(knots, 0)
            ELSE IF k >= Len(knots) + degree THEN at(knots, -1)
            ELSE Get(knots, k - degree)]

\* New(degree, knots): the outcome of the call.
New(degree, knots) ==
    IF Len(knots) < 2 THEN Failed(InvalidArgument)
    ELSE IF ~IsSortedFunc(knots) THEN Failed(InvalidArgument)
    \* make([]float64, len(knots)+2*degree) with a negative length, or the
    \* slice expression expandedKnots[degree:...] with a negative bound.
    ELSE IF Len(knots) + 2 * degree < 0 \/ degree < 0 THEN Failed(RuntimeError)
    ELSE LET s0 == [degree |-> degree,
                    expandedKnots |-> ExpandKnots(degree, knots),
                    controlPoints |-> << >>,
                    extrapolation |-> ExtrapolateConstant,
                    knotValueForControlPoint1 |-> F(0),
                    knotValueForControlPointM2 |-> F(0)]
             controlX == ControlPointsX(s0)
         IN  \* controlX[1] and at(controlX, -2)
             IF ~InRange(controlX, 1) \/ ~atInRange(controlX, -2)
             THEN Failed(RuntimeError)
             ELSE Returned([s0 EXCEPT
                      !.knotValueForControlPoint1 = Get(controlX, 1),
                      !.knotValueForControlPointM2 = at(controlX, -2)])

\* The knots NewRegular builds: ii / (numKnots-1) for ii in [0, numKnots).
RegularKnots(numKnots) == [ii0 \in 1..numKnots |-> Norm(ii0 - 1, numKnots - 1)]

\* NewRegular(degree, numControlPoints): the outcome of the call.
NewRegular(degree, numControlPoints) ==
    IF numControlPoints < degree + 1 THEN Failed(InvalidArgument)
    ELSE LET numKnots == numControlPoints - degree + 1
         IN  New(degree, RegularKnots(numKnots))

\* WithControlPoints with the assignment moved ahead of the length check: a
\* rejected vector is stored all the same.
WithControlPoints_StoreFirst(s, controlPoints) ==
    LET numKnots == Len(s.expandedKnots) - 2 * s.degree
        s1 == [s EXCEPT !.controlPoints = controlPoints]
    IN  IF Len(controlPoints) # numKnots + s.degree - 1
        THEN [out |-> Failed(InvalidArgument), after |-> s1]
        ELSE [out |-> Returned(s1), after |-> s1]

\* b.WithControlPoints(controlPoints): the outcome and the spline afterwards.
WithControlPoints(s, controlPoints) ==
    LET numKnots == Len(s.expandedKnots) - 2 * s.degree
    IN  IF Len(controlPoints) # numKnots + s.degree - 1
        THEN [out |-> Failed(InvalidArgument), after |-> s]
        ELSE LET s1 == [s EXCEPT !.controlPoints = controlPoints]
             IN  [out |-> Returned(s1), after |-> s1]

\* b.WithExtrapolation(e)
WithExtrapolation(s, e) == [s EXCEPT !.extrapolation = e]

----------------------------------------------------------------------------
(* Evaluation. *)

\* BasisFunction without the two zero-denominator guards.
RECURSIVE BasisFunction_NoGuard(_, _, _, _)
BasisFunction_NoGuard(s, controlPointIdx, degree, x) ==
    LET t(k) == Get(s.expandedKnots, k)
    IN  IF degree = 0
        THEN IF FGe(x, t(controlPointIdx)) /\ FLt(x, t(controlPointIdx + 1))
             THEN F(1) ELSE F(0)
        ELSE FAdd(FMul(FDiv(FSub(x, t(controlPointIdx)),
                            FSub(t(controlPointIdx + degree), t(controlPointIdx))),
                       BasisFunction_NoGuard(s, controlPointIdx, degree - 1, x)),
                  FMul(FDiv(FSub(t(controlPointIdx + degree + 1), x),
                            FSub(t(controlPointIdx + degree + 1),
                                 t(controlPointIdx + 1))),
                       BasisFunction_NoGuard(s, controlPointIdx + 1, degree - 1, x)))

\* BasisFunction with the degree-0 interval closed on the right:
\* x <= expandedKnots[controlPointIdx+1] in place of <.
RECURSIVE BasisFunction_ClosedInterval(_, _, _, _)
BasisFunction_ClosedInterval(s, controlPointIdx, degree, x) ==
    LET t(k) == Get(s.expandedKnots, k)
    IN  IF degree = 0
        THEN IF FGe(x, t(controlPointIdx)) /\ FLe(x, t(controlPointIdx + 1))
             THEN F(1) ELSE F(0)
        ELSE LET left ==
                   IF FNe(t(controlPointIdx + degree), t(controlPointIdx))
                   THEN FMul(FDiv(FSub(x, t(controlPointIdx)),
                                  FSub(t(controlPointIdx + degree), t(controlPointIdx))),
                             BasisFunction_ClosedInterval(s, controlPointIdx, degree - 1, x))
                   ELSE F(0)
                 right ==
                   IF FNe(t(controlPointIdx + degree + 1), t(controlPointIdx + 1))
                   THEN FMul(FDiv(FSub(t(controlPointIdx + degree + 1), x),
                                  FSub(t(controlPointIdx + degree + 1),
                                       t(controlPointIdx + 1))),
                             BasisFunction_ClosedInterval(s, controlPointIdx + 1, degree - 1, x))
                   ELSE F(0)
             IN  FAdd(left, right)

\* b.BasisFunction(controlPointIdx, degree, x): the Cox-de Boor recursion.
RECURSIVE BasisFunction(_, _, _, _)
BasisFunction(s, controlPointIdx, degree, x) ==
    LET t(k) == Get(s.expandedKnots, k)
    IN  IF degree = 0
        THEN IF FGe(x, t(controlPointIdx)) /\ FLt(x, t(controlPointIdx + 1))
             THEN F(1) ELSE F(0)
        ELSE LET left ==
                   IF FNe(t(controlPointIdx + degree), t(controlPointIdx))
                   THEN FMul(FDiv(FSub(x, t(controlPointIdx)),
                                  FSub(t(controlPointIdx + degree), t(controlPointIdx))),
                             BasisFunction(s, controlPointIdx, degree - 1, x))
                   ELSE F(0)
                 right ==
                   IF FNe(t(controlPointIdx + degree + 1), t(controlPointIdx + 1))
                   THEN FMul(FDiv(FSub(t(controlPointIdx + degree + 1), x),
                                  FSub(t(controlPointIdx + degree + 1),
                                       t(controlPointIdx + 1))),
                             BasisFunction(s, controlPointIdx + 1, degree - 1, x))
                   ELSE F(0)
             IN  FAdd(left, right)

\* b.extrapolate(x), for x outside the knots.
extrapolate(s, x) ==
    IF s.extrapolation = ExtrapolateZero THEN F(0)
    ELSE IF s.extrapolation = ExtrapolateConstant
    THEN IF FLt(x, Get(s.expandedKnots, 0))
         THEN Get(s.controlPoints, 0)
         ELSE Get(s.controlPoints, Len(s.controlPoints) - 1)
    ELSE IF s.extrapolation = ExtrapolateLinear
    THEN IF FLt(x, Get(s.expandedKnots, 0))
         THEN LET linearCoef ==
                    FDiv(FSub(Get(s.controlPoints, 1), Get(s.controlPoints, 0)),
                         FSub(s.knotValueForControlPoint1, Get(s.expandedKnots, 0)))
              IN  FAdd(Get(s.controlPoints, 0),
                       FMul(FSub(x, Get(s.expandedKnots, 0)), linearCoef))
         ELSE LET linearCoef ==
                    FDiv(FSub(at(s.controlPoints, -1), at(s.controlPoints, -2)),
                         FSub(at(s.expandedKnots, -1), s.knotValueForControlPointM2))
              IN  FAdd(at(s.controlPoints, -1),
                       FMul(FSub(x, at(s.expandedKnots, -1)), linearCoef))
    ELSE F(0)

\* Evaluate with x > expandedKnots[last] in place of >=: the last knot is
\* summed over the basis functions instead of extrapolated.
Evaluate_LastKnotInDomain(s, x) ==
    IF Len(s.controlPoints) = 0 THEN Failed(InvalidState)
    ELSE IF FLt(x, Get(s.expandedKnots, 0))
            \/ FLt(Get(s.expandedKnots, Len(s.expandedKnots) - 1), x)
    THEN Returned(extrapolate(s, x))
    ELSE Returned(SumSeq([i0 \in 1..Len(s.controlPoints) |->
                            FMul(s.controlPoints[i0],
                                 BasisFunction(s, i0 - 1, s.degree, x))]))

\* b.Evaluate(x): the outcome of the call.
Evaluate(s, x) ==
    IF Len(s.controlPoints) = 0 THEN Failed(InvalidState)
    ELSE IF FLt(x, Get(s.expandedKnots, 0))
            \/ FGe(x, Get(s.expandedKnots, Len(s.expandedKnots) - 1))
    THEN Returned(extrapolate(s, x))
    ELSE Returned(SumSeq([i0 \in 1..Len(s.controlPoints) |->
                            FMul(s.controlPoints[i0],
                                 BasisFunction(s, i0 - 1, s.degree, x))]))

----------------------------------------------------------------------------
(* Derivative. *)

\* The extrapolation of the derivative, copied from the original.
DerivativeExtrapolation_Copied(e) == e

\* The extrapolation of the derivative: zero, except constant when the
\* original's is linear.
DerivativeExtrapolation(e) ==
    IF e = ExtrapolateLinear THEN ExtrapolateConstant ELSE ExtrapolateZero

\* b.Derivative() with the knot differences taken one index too low:
\* expandedKnots[ii+degree] - expandedKnots[ii].
Derivative_KnotsOneLower(s) ==
    LET knots == Knots(s)
        degree == s.degree - 1
        control == s.controlPoints
        numNew == NumControlPoints(s) - 1
    IN  IF numNew < 0 THEN Failed(RuntimeError)
        ELSE IF \E ii \in 0..(numNew - 1) : ~InRange(control, ii + 1)
        THEN Failed(RuntimeError)
        ELSE LET newControl ==
                   [ii0 \in 1..numNew |->
                      LET ii == ii0 - 1
                      IN  FDiv(FMul(F(s.degree),
                                    FSub(Get(control, ii + 1), Get(control, ii))),
                               FSub(Get(s.expandedKnots, ii + s.degree),
                                    Get(s.expandedKnots, ii)))]
                 made == New(degree, knots)
             IN  IF made.kind # Ok THEN made
                 ELSE WithControlPoints(
                          WithExtrapolation(made.value,
                                            DerivativeExtrapolation(s.extrapolation)),
                          newControl).out

\* b.Derivative(): the outcome of the call.
Derivative(s) ==
    LET knots == Knots(s)
        degree == s.degree - 1
        control == s.controlPoints
        numNew == NumControlPoints(s) - 1
    IN  IF numNew < 0 THEN Failed(RuntimeError)
        \* control[ii+1] with the control points unset (or too short)
        ELSE IF \E ii \in 0..(numNew - 1) : ~InRange(control, ii + 1)
        THEN Failed(RuntimeError)
        ELSE LET newControl ==
                   [ii0 \in 1..numNew |->
                      LET ii == ii0 - 1
                      IN  FDiv(FMul(F(s.degree),
                                    FSub(Get(control, ii + 1), Get(control, ii))),
                               FSub(Get(s.expandedKnots, ii + 1 + s.degree),
                                    Get(s.expandedKnots, ii + 1)))]
                 made == New(degree, knots)
             IN  IF made.kind # Ok THEN made
                 ELSE WithControlPoints(
                          WithExtrapolation(made.value,
                                            DerivativeExtrapolation(s.extrapolation)),
                          newControl).out

\* The receiver of b.Derivative() with the configuration calls that end
\* Derivative made on it: its extrapolation is overwritten.
DerivativeReceiver_Configured(s) ==
    WithExtrapolation(s, DerivativeExtrapolation(s.extrapolation))

\* The receiver after b.Derivative(): Derivative reads the fields of b; the
\* spline it configures with WithExtrapolation and WithControlPoints is the
\* one New allocated.
DerivativeReceiver(s) == s

----------------------------------------------------------------------------
(* Inputs of the calls. *)

Degrees == -1..MaxDegree

KnotValues == {F(0), F(1), F(MaxKnotValue)}

RECURSIVE SeqsOfLen(_, _)
SeqsOfLen(S, n) ==
    IF n = 0 THEN {<< >>}
    ELSE {Append(s, v) : s \in SeqsOfLen(S, n - 1), v \in S}

SeqsUpTo(S, n) == UNION {SeqsOfLen(S, k) : k \in 0..n}

KnotInputs == SeqsUpTo(KnotValues, MaxNumKnots)

\* Control point counts handed to NewRegular: up to the most that still gives
\* MaxNumKnots knots.
RegularCounts == 0..(MaxDegree + MaxNumKnots - 1)

\* Control point vectors handed to WithControlPoints.  Of the length the
\* spline takes: the zero vector and the unit vectors (Evaluate and Derivative
\* are linear in the control points).  Of every other length up to one more
\* than any spline of the model takes: the zero vector (the call looks at
\* the length only).
UnitVector(len, k) == [i \in 1..len |-> IF i = k THEN F(1) ELSE F(0)]

CtrlInputs(s) ==
    {UnitVector(NumControlPoints(s), k) : k \in 0..NumControlPoints(s)}
    \cup {UnitVector(len, 0) : len \in 0..(MaxDegree + MaxNumKnots)}

\* Parameter values handed to Evaluate and BasisFunction when the functions
\* are checked on their own: the quarters from -1/2 to MaxKnotValue + 1/2.
XS == {Norm(k, 4) : k \in (-2)..(4 * MaxKnotValue + 2)}

\* Parameter values handed to Evaluate and BasisFunction between the other
\* calls: one below every knot, one inside the first unit, one above every knot.
XProbes == {Norm(-1, 2), Norm(1, 2), Norm(2 * MaxKnotValue + 1, 2)}

----------------------------------------------------------------------------
(* The state machine: one spline object b, and the outcome of the last call *)
(* made.  The constructors run while no spline has been built.  derivative *)
(* is the spline a Derivative call returned, where the caller keeps it;     *)
(* here the caller drops it after looking at it, and it stays unset.        *)

Init ==
    /\ b = NoSpline
    /\ derivative = NoSpline
    /\ result = [op |-> "none", args |-> << >>, kind |-> Ok, value |-> NoValue]

Call(op, args, out) ==
    [op |-> op, args |-> args, kind |-> out.kind, value |-> out.value]

DoNew ==
    /\ b = NoSpline
    /\ UNCHANGED derivative
    /\ \E degree \in Degrees, knots \in KnotInputs :
          LET out == New(degree, knots)
          IN  /\ result' = Call("New", <<degree, knots>>, out)
              /\ b' = IF out.kind = Ok THEN out.value ELSE b

DoNewRegular ==
    /\ b = NoSpline
    /\ UNCHANGED derivative
    /\ \E degree \in Degrees, numControlPoints \in RegularCounts :
          LET out == NewRegular(degree, numControlPoints)
          IN  /\ result' = Call("NewRegular", <<degree, numControlPoints>>, out)
              /\ b' = IF out.kind = Ok THEN out.value ELSE b

DoWithControlPoints ==
    /\ b # NoSpline
    /\ UNCHANGED derivative
    /\ \E controlPoints \in CtrlInputs(b) :
          LET r == WithControlPoints(b, controlPoints)
          IN  /\ result' = Call("WithControlPoints", <<controlPoints>>, r.out)
              /\ b' = r.after

DoWithExtrapolation ==
    /\ b # NoSpline
    /\ UNCHANGED derivative
    /\ \E e \in ExtrapolationTypes :
          /\ b' = WithExtrapolation(b, e)
          /\ result' = Call("WithExtrapolation", <<e>>, Returned(b'))

DoEvaluate ==
    /\ b # NoSpline
    /\ \E x \in XProbes :
          /\ result' = Call("Evaluate", <<x>>, Evaluate(b, x))
          /\ UNCHANGED <<b, derivative>>

\* The basis functions of every control point at x, as the plotting adapter
\* computes them: BasisFunction(controlIdx, Degree(), x) for each controlIdx
\* below NumControlPoints().
BasisFunctions(s, x) ==
    [i0 \in 1..NumControlPoints(s) |-> BasisFunction(s, i0 - 1, s.degree, x)]

DoBasisFunction ==
    /\ b # NoSpline
    /\ \E x \in XProbes :
          /\ result' = Call("BasisFunction", <<x>>, Returned(BasisFunctions(b, x)))
          /\ UNCHANGED <<b, derivative>>

DoControlPointsX ==
    /\ b # NoSpline
    /\ result' = Call("ControlPointsX", << >>, Returned(ControlPointsX(b)))
    /\ UNCHANGED <<b, derivative>>

DoDerivative ==
    /\ b # NoSpline
    /\ result' = Call("Derivative", << >>, Derivative(b))
    /\ b' = DerivativeReceiver(b)
    /\ UNCHANGED derivative

Next ==
    \/ DoNew
    \/ DoNewRegular
    \/ DoWithControlPoints
    \/ DoWithExtrapolation
    \/ DoEvaluate
    \/ DoBasisFunction
    \/ DoControlPointsX
    \/ DoDerivative

Spec == Init /\ [][Next]_vars

----------------------------------------------------------------------------
(* Evaluate and BasisFunction on their own.  They read the spline and write *)
(* nothing, so a call is decided by the spline it is made on and by x: the  *)
(* initial states are the splines the calls above can build and configure,  *)
(* and one step applies one of the two functions at one x of XS.            *)

\* The splines New and NewRegular return on the inputs of the model.
Splines ==
    {New(dk[1], dk[2]).value :
        dk \in {p \in Degrees \X KnotInputs : New(p[1], p[2]).kind = Ok}}
    \cup {NewRegular(dn[1], dn[2]).value :
        dn \in {p \in Degrees \X RegularCounts : NewRegular(p[1], p[2]).kind = Ok}}

\* s as built, or after WithControlPoints, and after WithExtrapolation.
Configured(s) ==
    {WithExtrapolation(s1, e) :
        s1 \in {WithControlPoints(s, c).after : c \in CtrlInputs(s)},
        e \in ExtrapolationTypes}

InitEval ==
    /\ b \in UNION {Configured(s) : s \in Splines}
    /\ derivative = NoSpline
    /\ result = [op |-> "none", args |-> << >>, kind |-> Ok, value |-> NoValue]

ApplyEvaluate ==
    /\ result.op = "none"
    /\ \E x \in XS :
          /\ result' = Call("Evaluate", <<x>>, Evaluate(b, x))
          /\ UNCHANGED <<b, derivative>>

ApplyBasisFunction ==
    /\ result.op = "none"
    /\ \E x \in XS :
          /\ result' = Call("BasisFunction", <<x>>, Returned(BasisFunctions(b, x)))
          /\ UNCHANGED <<b, derivative>>

NextEval ==
    \/ ApplyEvaluate
    \/ ApplyBasisFunction

SpecEval == InitEval /\ [][NextEval]_vars

----------------------------------------------------------------------------
(* A spline and its derivative side by side.  The caller keeps the spline   *)
(* Derivative returned and goes on calling both objects.  The calls on the  *)
(* original are the ones above, with the two accessors; the derivative      *)
(* takes the configuration calls.  The original is one of the splines       *)
(* NewRegular returns, and WithControlPoints is handed the zero vector, a   *)
(* unit vector, or a vector one too long.                                   *)

RegularSplines ==
    {NewRegular(dn[1], dn[2]).value :
        dn \in {p \in Degrees \X RegularCounts : NewRegular(p[1], p[2]).kind = Ok}}

PairCtrlInputs(s) ==
    {UnitVector(NumControlPoints(s), 0), UnitVector(NumControlPoints(s), 1),
     UnitVector(NumControlPoints(s) + 1, 0)}

InitDerivative ==
    /\ b \in RegularSplines
    /\ derivative = NoSpline
    /\ result = [op |-> "none", args |-> << >>, kind |-> Ok, value |-> NoValue]

DoKnots ==
    /\ result' = Call("Knots", << >>, Returned(Knots(b)))
    /\ UNCHANGED <<b, derivative>>

DoNumControlPoints ==
    /\ result' = Call("NumControlPoints", << >>, Returned(NumControlPoints(b)))
    /\ UNCHANGED <<b, derivative>>

\* b.WithControlPoints(controlPoints)
OriginalWithControlPoints ==
    /\ \E controlPoints \in PairCtrlInputs(b) :
          LET r == WithControlPoints(b, controlPoints)
          IN  /\ result' = Call("WithControlPoints", <<controlPoints>>, r.out)
              /\ b' = r.after
    /\ UNCHANGED derivative

\* derivative := b.Derivative()
KeepDerivative ==
    LET out == Derivative(b)
    IN  /\ result' = Call("Derivative", << >>, out)
        /\ b' = DerivativeReceiver(b)
        /\ derivative' = IF out.kind = Ok THEN out.value ELSE derivative

\* derivative.WithControlPoints(controlPoints)
DerivativeWithControlPoints ==
    /\ derivative # NoSpline
    /\ \E controlPoints \in PairCtrlInputs(derivative) :
          LET r == WithControlPoints(derivative, controlPoints)
          IN  /\ result' = Call("derivative.WithControlPoints",
                                 <<controlPoints>>, r.out)
              /\ derivative' = r.after
    /\ UNCHANGED b

\* derivative.WithExtrapolation(e)
DerivativeWithExtrapolation ==
    /\ derivative # NoSpline
    /\ \E e \in ExtrapolationTypes :
          /\ derivative' = WithExtrapolation(derivative, e)
          /\ result' = Call("derivative.WithExtrapolation", <<e>>,
                             Returned(derivative'))
    /\ UNCHANGED b

NextDerivative ==
    \/ OriginalWithControlPoints
    \/ DoWithExtrapolation
    \/ DoEvaluate
    \/ DoBasisFunction
    \/ DoControlPointsX
    \/ DoKnots
    \/ DoNumControlPoints
    \/ KeepDerivative
    \/ DerivativeWithControlPoints
    \/ DerivativeWithExtrapolation

SpecDerivative == InitDerivative /\ [][NextDerivative]_vars

----------------------------------------------------------------------------
(* Package gomlx (gomlx/gomlx.go): the same evaluation as a computation     *)
(* graph over whole arrays.  A tensor is a sequence of sequences; the graph *)
(* operations are modelled by what they compute on one row of the           *)
(* [batchSize*numInputs, numKnots] arrays, that is for one input value x.   *)

\* b.ExpandedKnots(): the full expanded knot vector.
ExpandedKnots(s) == s.expandedKnots

\* Shift(x, -1, ShiftDirLeft, n): element k takes the value n places to its
\* right; the places left open at the end keep the last value.
Shift(x, n) ==
    [k \in 1..Len(x) |-> x[IF k + n > Len(x) THEN Len(x) ELSE k + n]]

\* ShiftLeft(x, n, fill): as Shift, the places left open take fill.
ShiftLeft(x, n, fill) ==
    [k \in 1..Len(x) |-> IF k + n > Len(x) THEN fill ELSE x[k + n]]

\* knotsDelta of one level: the knots degree places ahead minus the knots,
\* and where that is zero.
KnotsDeltaIsZero(knots, degree) ==
    LET knotsAhead == Shift(knots, degree)
    IN  [k \in 1..Len(knots) |-> FEq(FSub(knotsAhead[k], knots[k]), F(0))]

\* knotsDelta of one level, zeros replaced with ones.
KnotsDelta(knots, degree) ==
    LET knotsAhead == Shift(knots, degree)
    IN  [k \in 1..Len(knots) |->
            IF FEq(FSub(knotsAhead[k], knots[k]), F(0)) THEN F(1)
            ELSE FSub(knotsAhead[k], knots[k])]

\* left + right of one level for one flat input x, from the arrays of the
\* level: recursiveBasis, knotsDeltaIsZero, knotsDelta and their shifts.
basisSum(knots, x, recursiveBasis, knotsDeltaIsZero, knotsDelta, knotsFurther, deltaNext, isZeroNext, basisNext) ==
    [k \in 1..Len(knots) |->
        LET weightsLeft == IF knotsDeltaIsZero[k] THEN F(0)
                           ELSE FDiv(FSub(x, knots[k]), knotsDelta[k])
            weightsRight == IF isZeroNext[k] THEN F(0)
                            ELSE FDiv(FSub(knotsFurther[k], x), deltaNext[k])
        IN  FAdd(FMul(weightsLeft, recursiveBasis[k]),
                 FMul(weightsRight, basisNext[k]))]

\* One level of evalData.basisFunction for one flat input x: the weights of
\* degree from recursiveBasis, the weights of degree - 1.  Every array of the
\* level is computed once.
basisLevel(knots, degree, x, recursiveBasis) ==
    CHOOSE level \in
        {basisSum(knots, x, recursiveBasis, knotsDeltaIsZero, knotsDelta,
                  knotsFurther, deltaNext, isZeroNext, basisNext) :
            knotsDeltaIsZero \in {KnotsDeltaIsZero(knots, degree)},
            knotsDelta \in {KnotsDelta(knots, degree)},
            knotsFurther \in {Shift(knots, degree + 1)},
            deltaNext \in {Shift(KnotsDelta(knots, degree), 1)},
            isZeroNext \in {Shift(KnotsDeltaIsZero(knots, degree), 1)},
            basisNext \in {Shift(recursiveBasis, 1)}} : TRUE

\* evalData.basisFunction(degree) for one flat input x: one weight per
\* expanded knot.  The level below is computed once and handed on.
RECURSIVE basisFunction(_, _, _)
basisFunction(s, degree, x) ==
    LET knots == ExpandedKnots(s)
        cols == 1..Len(knots)
    IN  IF degree = 0
        THEN LET ge == [k \in cols |-> FGe(x, knots[k])]
                 lt == ShiftLeft([k \in cols |-> FLt(x, knots[k])], 1, FALSE)
             IN  [k \in cols |-> IF ge[k] /\ lt[k] THEN F(1) ELSE F(0)]
        ELSE CHOOSE level \in
                 {basisLevel(knots, degree, x, recursiveBasis) :
                     recursiveBasis \in {basisFunction(s, degree - 1, x)}} : TRUE

\* Einsum with the outputs and inputs axes of the result exchanged:
\* "ijk,jlk->ijl".
Einsum_InputsBeforeOutputs(basis, controlPoints) ==
    [e \in 1..Len(basis) |->
        [i \in 1..Len(controlPoints) |->
            [o \in 1..Len(controlPoints[1]) |->
                SumSeq([k \in 1..Len(controlPoints[i][o]) |->
                           FMul(basis[e][i][k], controlPoints[i][o][k])])]]]

\* Einsum("ijk,jlk->ilj", basis, controlPoints): result[i][l][j] is the sum
\* over k of basis[i][j][k] * controlPoints[j][l][k].
Einsum(basis, controlPoints) ==
    [e \in 1..Len(basis) |->
        [o \in 1..Len(controlPoints[1]) |->
            [i \in 1..Len(controlPoints) |->
                SumSeq([k \in 1..Len(controlPoints[i][o]) |->
                           FMul(basis[e][i][k], controlPoints[i][o][k])])]]]

\* gomlx.Evaluate(b, inputs, controlPoints) with inputs of rank 2,
\* [batchSize, numInputs], and controlPoints of rank 3,
\* [numInputs, numOutputs, numControlPoints]: the outcome of the call.
GomlxEvaluate(s, inputs, controlPoints) ==
    LET numInputs == Len(controlPoints)
        numControlPoints == Len(controlPoints[1][1])
    IN  IF numControlPoints # NumControlPoints(s)
        THEN Failed(InvalidArgument)
        ELSE IF Len(inputs[1]) # numInputs THEN Failed(InvalidArgument)
        ELSE LET basis ==
                   [e \in 1..Len(inputs) |->
                       [i \in 1..numInputs |->
                           SubSeq(basisFunction(s, s.degree, inputs[e][i]),
                                  1, numControlPoints)]]
             IN  Returned(Einsum(basis, controlPoints))

\* Inputs of gomlx.Evaluate: two examples of two inputs, made of one value of
\* XS and of 1/2 in both orders.
BatchInputs == {<< <<x, Norm(1, 2)>>, <<Norm(1, 2), x>> >> : x \in XS}

\* Control points of gomlx.Evaluate: two inputs by two outputs, four
\* consecutive vectors out of the unit vectors and the zero vector, and one
\* tensor of vectors one too long.
BatchUnits(len, k) ==
    [i \in 1..2 |-> [o \in 1..2 |->
        UnitVector(len, (k + 2 * (i - 1) + (o - 1)) % (len + 1))]]

BatchControlPoints(s) ==
    {BatchUnits(NumControlPoints(s), 1), BatchUnits(NumControlPoints(s) + 1, 1)}

InitBatch ==
    /\ b \in {WithExtrapolation(s, e) : s \in Splines, e \in ExtrapolationTypes}
    /\ derivative = NoSpline
    /\ result = [op |-> "none", args |-> << >>, kind |-> Ok, value |-> NoValue]

ApplyGomlxEvaluate ==
    /\ result.op = "none"
    /\ \E inputs \in BatchInputs, controlPoints \in BatchControlPoints(b) :
          result' = Call("gomlx.Evaluate", <<inputs, controlPoints>>,
                         GomlxEvaluate(b, inputs, controlPoints))
    /\ UNCHANGED <<b, derivative>>

NextBatch == ApplyGomlxEvaluate

SpecBatch == InitBatch /\ [][NextBatch]_vars

----------------------------------------------------------------------------
(* Helpers of the properties. *)

\* The arguments of the last call.
Arg(k) == result.args[k]

\* knots[i] < knots[i+1] for every adjacent pair.
StrictlyIncreasing(knots) ==
    \A i \in 1..(Len(knots) - 1) : FLt(knots[i], knots[i + 1])

FirstKnot(s) == Get(s.expandedKnots, 0)
LastKnot(s) == Get(s.expandedKnots, Len(s.expandedKnots) - 1)

\* expandedKnots[0] <= x < expandedKnots[last]
InDomain(s, x) == FLe(FirstKnot(s), x) /\ FLt(x, LastKnot(s))

ControlPointsSet(s) == Len(s.controlPoints) > 0

\* The sum over all control points i of controlPoints[i] * BasisFunction(i, degree, x).
BasisSum(s, x) ==
    SumSeq([i0 \in 1..Len(s.controlPoints) |->
               FMul(s.controlPoints[i0], BasisFunction(s, i0 - 1, s.degree, x))])

InUnitInterval(v) == IsFinite(v) /\ FLe(F(0), v) /\ FLe(v, F(1))

----------------------------------------------------------------------------
(* Properties. *)

\* C1: for every degree d >= 0 and every n >= d+1, NewRegular(d, n) returns a
\* spline whose NumControlPoints() is n, the smallest cases n = d+1 included.
C1_NewRegularRoundTrip ==
    (result.op = "NewRegular" /\ Arg(1) >= 0 /\ Arg(2) >= Arg(1) + 1)
        => (result.kind = Ok /\ NumControlPoints(result.value) = Arg(2))

\* C2: New fails with InvalidArgument and builds no spline whenever knots has
\* fewer than 2 entries or some adjacent pair has knots[i] >= knots[i+1];
\* NewRegular(d, n) fails the same way whenever n < d+1.  (Stated for New
\* with degree >= 1, where nothing else in New can fail.)
C2_BadKnotsRejected ==
    /\ (result.op = "New" /\ Arg(1) >= 1
           /\ (Len(Arg(2)) < 2 \/ ~StrictlyIncreasing(Arg(2))))
          => (result.kind = InvalidArgument /\ b = NoSpline)
    /\ (result.op = "NewRegular" /\ Arg(2) < Arg(1) + 1)
          => (result.kind = InvalidArgument /\ b = NoSpline)

\* C3: New with degree < 0 fails with InvalidArgument, whatever the knots.
\* (Stated for 2 or more strictly increasing knots, where the knots give New
\* no reason to fail.)
C3_NegativeDegreeRejected ==
    (result.op = "New" /\ Arg(1) < 0
       /\ Len(Arg(2)) >= 2 /\ StrictlyIncreasing(Arg(2)))
        => result.kind = InvalidArgument

\* C4: a WithControlPoints(points) step on a spline fails with InvalidArgument
\* and leaves every field of the spline as it was when len(points) differs
\* from NumControlPoints(); otherwise it stores points as the control points,
\* changes no other field, and returns the spline itself.
C4_WithControlPoints ==
    [][(result'.op = "WithControlPoints" /\ b # NoSpline)
         => LET points == result'.args[1]
            IN  IF Len(points) # NumControlPoints(b)
                THEN result'.kind = InvalidArgument /\ b' = b
                ELSE /\ result'.kind = Ok
                     /\ b'.controlPoints = points
                     /\ b' = [b EXCEPT !.controlPoints = points]
                     /\ result'.value = b']_vars

\* C4 witness: a call with a wrong length has failed on a spline whose
\* control points had been set, and they are still stored.
C4_Witness ==
    /\ result.op = "WithControlPoints"
    /\ result.kind = InvalidArgument
    /\ ControlPointsSet(b)
    /\ Len(Arg(1)) = NumControlPoints(b) + 1

\* C5: on a spline whose control points were never set, Evaluate(x) and
\* Derivative() both fail with InvalidState.  (Stated for splines over
\* strictly increasing knots.)
C5_UnsetControlPointsInvalidState ==
    (result.op \in {"Evaluate", "Derivative"} /\ ~ControlPointsSet(b)
       /\ StrictlyIncreasing(Knots(b)))
        => result.kind = InvalidState

C7_LinearExtrapolation ==
    (result.op = "Evaluate" /\ ControlPointsSet(b)
       /\ StrictlyIncreasing(Knots(b))
       /\ b.extrapolation = ExtrapolateLinear /\ ~InDomain(b, Arg(1)))
        => LET x == Arg(1)
               c == b.controlPoints
               X1 == Get(ControlPointsX(b), 1)
               Xm2 == at(ControlPointsX(b), -2)
           IN  /\ b.knotValueForControlPoint1 = X1
               /\ b.knotValueForControlPointM2 = Xm2
               /\ IsFinite(X1) /\ IsFinite(Xm2)
               /\ X1 # FirstKnot(b) /\ Xm2 # LastKnot(b)
               /\ result.kind = Ok
               /\ result.value =
                    IF FLt(x, FirstKnot(b))
                    THEN FAdd(Get(c, 0),
                              FMul(FSub(x, FirstKnot(b)),
                                   FDiv(FSub(Get(c, 1), Get(c, 0)),
                                        FSub(X1, FirstKnot(b)))))
                    ELSE FAdd(at(c, -1),
                              FMul(FSub(x, LastKnot(b)),
                                   FDiv(FSub(at(c, -1), at(c, -2)),
                                        FSub(LastKnot(b), Xm2))))

\* C8: partition of unity.  On a spline built by New over strictly
\* increasing knots, for every x with expandedKnots[0] <= x <
\* expandedKnots[last], the basis functions BasisFunction(i, degree, x) of the
\* control points i in [0, NumControlPoints()) sum to 1 and each is a number
\* in [0, 1] (also at the repeated end knots).
C8_PartitionOfUnity ==
    (result.op = "BasisFunction" /\ StrictlyIncreasing(Knots(b))
       /\ InDomain(b, Arg(1)))
        => /\ result.kind = Ok
           /\ Len(result.value) = NumControlPoints(b)
           /\ \A i \in 1..Len(result.value) : InUnitInterval(result.value[i])
           /\ SumSeq(result.value) = F(1)

\* C8 witness: the basis functions of a spline of degree >= 2 were computed
\* strictly inside a knot interval, where more than two of them are non-zero.
C8_Witness ==
    /\ result.op = "BasisFunction"
    /\ StrictlyIncreasing(Knots(b))
    /\ b.degree >= 2
    /\ InDomain(b, Arg(1))
    /\ Cardinality({i \in 1..Len(result.value) : result.value[i] # F(0)}) > 2

\* C9: on a spline of degree 0 with control points set, for x in the domain,
\* Evaluate(x) is controlPoints[j] for the one j with knots[j] <= x < knots[j+1].
C9_DegreeZeroHold ==
    (result.op = "Evaluate" /\ b.degree = 0 /\ ControlPointsSet(b)
       /\ InDomain(b, Arg(1)))
        => LET x == Arg(1)
               knots == Knots(b)
               J == {j \in 0..(Len(knots) - 2) :
                        FLe(Get(knots, j), x) /\ FLt(x, Get(knots, j + 1))}
           IN  /\ Cardinality(J) = 1
               /\ result.kind = Ok
               /\ \A j \in J : result.value = Get(b.controlPoints, j)

\* C9 witness: Evaluate on a degree-0 spline, at an interior knot, returned
\* the control point of the interval that starts there, while the control
\* point of the interval that ends there is different.
C9_Witness ==
    /\ result.op = "Evaluate"
    /\ result.kind = Ok
    /\ b.degree = 0
    /\ ControlPointsSet(b)
    /\ \E j \in 1..(Len(Knots(b)) - 2) :
          /\ Arg(1) = Get(Knots(b), j)
          /\ result.value = Get(b.controlPoints, j)
          /\ Get(b.controlPoints, j - 1) # Get(b.controlPoints, j)

\* The value the in-domain sum of Evaluate approaches as x tends to
\* expandedKnots[last] from the left: on the last non-empty knot interval the
\* sum is a polynomial in x, given by the recursion of BasisFunction with the
\* degree-0 function of that interval held at 1 up to its right end.
RECURSIVE BasisLeftLimit(_, _, _)
BasisLeftLimit(s, i, p) ==
    LET t(k) == Get(s.expandedKnots, k)
        x == LastKnot(s)
    IN  IF p = 0
        THEN IF FLt(t(i), t(i + 1)) /\ t(i + 1) = x THEN F(1) ELSE F(0)
        ELSE FAdd(IF FNe(t(i + p), t(i))
                  THEN FMul(FDiv(FSub(x, t(i)), FSub(t(i + p), t(i))),
                            BasisLeftLimit(s, i, p - 1))
                  ELSE F(0),
                  IF FNe(t(i + p + 1), t(i + 1))
                  THEN FMul(FDiv(FSub(t(i + p + 1), x), FSub(t(i + p + 1), t(i + 1))),
                            BasisLeftLimit(s, i + 1, p - 1))
                  ELSE F(0))

EvaluateLeftLimit(s) ==
    SumSeq([i0 \in 1..Len(s.controlPoints) |->
               FMul(s.controlPoints[i0], BasisLeftLimit(s, i0 - 1, s.degree))])

\* C10: on every spline with control points set, Evaluate(expandedKnots[0])
\* is controlPoints[0] in every extrapolation mode; in Constant and Linear
\* modes Evaluate(expandedKnots[last]) is controlPoints[last], which is also
\* the value the in-domain sum approaches from the left of expandedKnots[last];
\* in Zero mode Evaluate(expandedKnots[last]) is 0.  (Stated for splines
\* over strictly increasing knots.)
C10_ClampedEndpoints ==
    (result.op = "Evaluate" /\ ControlPointsSet(b)
       /\ StrictlyIncreasing(Knots(b)))
        => /\ Arg(1) = FirstKnot(b)
                => (result.kind = Ok /\ result.value = Get(b.controlPoints, 0))
           /\ (Arg(1) = LastKnot(b)
                 /\ b.extrapolation \in {ExtrapolateConstant, ExtrapolateLinear})
                => /\ result.kind = Ok
                   /\ result.value = at(b.controlPoints, -1)
                   /\ EvaluateLeftLimit(b) = at(b.controlPoints, -1)
           /\ (Arg(1) = LastKnot(b) /\ b.extrapolation = ExtrapolateZero)
                => (result.kind = Ok /\ result.value = F(0))

----------------------------------------------------------------------------
(* C11.  The spline Derivative returns. *)

\* Derivative has returned a spline: the receiver is still b, the returned
\* spline is the value of the call.
DerivativeReturned == result.op = "Derivative" /\ result.kind = Ok

\* The knot difference under new control point i of the derivative of s.
DerivativeDenominator(s, i) ==
    FSub(Get(s.expandedKnots, i + 1 + s.degree), Get(s.expandedKnots, i + 1))

\* p * (c[i+1] - c[i]) / (expandedKnots[i+1+p] - expandedKnots[i+1])
DerivativeControlPoint(s, i) ==
    FDiv(FMul(F(s.degree),
              FSub(Get(s.controlPoints, i + 1), Get(s.controlPoints, i))),
         DerivativeDenominator(s, i))

----------------------------------------------------------------------------
(* C12.  The extrapolation of the derivative. *)

\* C12: the extrapolation of the spline Derivative returns follows from the
\* original's at the call: zero gives zero, constant gives zero, linear gives
\* constant; the derivative of the derivative, when it too is returned,
\* extrapolates with zero whatever the original's extrapolation.
C12_DerivativeExtrapolation ==
    DerivativeReturned
        => LET r == result.value
               second == Derivative(r)
           IN  /\ b.extrapolation = ExtrapolateZero
                     => r.extrapolation = ExtrapolateZero
               /\ b.extrapolation = ExtrapolateConstant
                     => r.extrapolation = ExtrapolateZero
               /\ b.extrapolation = ExtrapolateLinear
                     => r.extrapolation = ExtrapolateConstant
               /\ second.kind = Ok
                     => second.value.extrapolation = ExtrapolateZero

\* Derivative has returned on a spline extrapolating linearly, and the
\* derivative of the returned spline is returned too.
C12_Witness ==
    /\ DerivativeReturned
    /\ b.extrapolation = ExtrapolateLinear
    /\ Derivative(result.value).kind = Ok

----------------------------------------------------------------------------
(* C13.  ControlPointsX. *)

\* The mean of the degree knots after expandedKnots[i].
KnotMean(s, i) ==
    FDiv(SumSeq([j0 \in 1..s.degree |-> Get(s.expandedKnots, i + j0)]),
         F(s.degree))

\* C13: on every spline New accepts, of any degree >= 0, ControlPointsX
\* returns NumControlPoints() values: the first is expandedKnots[0], the last
\* is the last expanded knot, each one between is the mean of the degree
\* expanded knots from i+1 on, and every one is a defined number.  (Stated
\* for strictly increasing knots.)
C13_ControlPointsX ==
    (/\ result.op = "ControlPointsX"
     /\ b.degree >= 0
     /\ StrictlyIncreasing(Knots(b)))
        => LET xs == result.value
               n == NumControlPoints(b)
           IN  /\ result.kind = Ok
               /\ Len(xs) = n
               /\ Get(xs, 0) = Get(b.expandedKnots, 0)
               /\ at(xs, -1) = at(b.expandedKnots, -1)
               /\ \A i \in 1..(n - 2) : Get(xs, i) = KnotMean(b, i)
               /\ \A i \in 0..(n - 1) : IsFinite(Get(xs, i))

----------------------------------------------------------------------------
(* C14.  What every call keeps true of the spline. *)

\* The knots handed to New by the constructor call recorded in r: the knots
\* argument of New, the regular knots NewRegular builds.
GivenKnots(r) ==
    IF r.op = "New" THEN r.args[2]
    ELSE RegularKnots(r.args[2] - r.args[1] + 1)

NonDecreasing(seq) ==
    \A i \in 1..(Len(seq) - 1) : FLe(seq[i], seq[i + 1])

\* degree copies of knots[0], the knots, degree copies of knots[last].
Clamped(degree, knots, expanded) ==
    /\ Len(expanded) = Len(knots) + 2 * degree
    /\ \A i \in 1..degree : expanded[i] = knots[1]
    /\ \A i \in 1..Len(knots) : expanded[degree + i] = knots[i]
    /\ \A i \in 1..degree : expanded[degree + Len(knots) + i] = knots[Len(knots)]

\* One step of the spline object, from its construction on.
C14_Step ==
    /\ (b = NoSpline /\ b' # NoSpline)
          => /\ result'.op \in {"New", "NewRegular"}
             /\ b'.degree = result'.args[1]
             /\ Clamped(b'.degree, GivenKnots(result'), b'.expandedKnots)
             /\ Knots(b') = GivenKnots(result')
             /\ NonDecreasing(b'.expandedKnots)
             /\ b'.extrapolation = ExtrapolateConstant
             /\ b'.controlPoints = << >>
    /\ b # NoSpline
          => /\ b' # NoSpline
             /\ b'.degree = b.degree
             /\ b'.expandedKnots = b.expandedKnots
             /\ b'.extrapolation # b.extrapolation
                   => result'.op = "WithExtrapolation"
             /\ \/ b'.controlPoints = << >>
                \/ Len(b'.controlPoints) = NumControlPoints(b')
             /\ NumControlPoints(b') = Len(Knots(b')) + b'.degree - 1

\* C14: over any sequence of calls after New, failing calls included, the
\* degree of the spline does not change; its expanded knots do not change,
\* are len(knots) + 2*degree long, non-decreasing, and are degree copies of
\* knots[0], the knots given to New, degree copies of knots[last], so Knots()
\* returns the knots given; the extrapolation is constant until
\* WithExtrapolation is called; the control points are unset or exactly
\* NumControlPoints() = len(knots) + degree - 1 long.
C14_SplineInvariant == [][C14_Step]_vars

\* A spline of degree 2 with control points set and linear extrapolation, on
\* which Derivative has just been called.
C14_Witness ==
    /\ b # NoSpline
    /\ b.degree = 2
    /\ Len(b.controlPoints) = NumControlPoints(b)
    /\ b.extrapolation = ExtrapolateLinear
    /\ result.op = "Derivative"

----------------------------------------------------------------------------
(* C18.  Derivative on splines of degree >= 1. *)

\* C18: on every spline of degree >= 1 built by New over two or more
\* strictly increasing knots, with control points set, Derivative returns a
\* spline, and the control points of that spline are as many as its
\* NumControlPoints().
C18_DerivativeTotal ==
    (/\ result.op = "Derivative"
     /\ b.degree >= 1
     /\ Len(Knots(b)) >= 2
     /\ StrictlyIncreasing(Knots(b))
     /\ ControlPointsSet(b))
        => /\ result.kind = Ok
           /\ Len(result.value.controlPoints) = NumControlPoints(result.value)

----------------------------------------------------------------------------
(* C15.  Calls that only read, and the independence of the derivative. *)

\* What a reading call recorded in r returns on spline s.
ReadOutcome(s, r) ==
    CASE r.op = "Evaluate" -> Evaluate(s, r.args[1])
      [] r.op = "BasisFunction" -> Returned(BasisFunctions(s, r.args[1]))
      [] r.op = "ControlPointsX" -> Returned(ControlPointsX(s))
      [] r.op = "Knots" -> Returned(Knots(s))
      [] r.op = "NumControlPoints" -> Returned(NumControlPoints(s))
      [] r.op = "Derivative" -> Derivative(s)

ReadingCalls ==
    {"Evaluate", "BasisFunction", "ControlPointsX", "Knots",
     "NumControlPoints", "Derivative"}

\* One call on the original or on the derivative the caller kept.
C15_Step ==
    /\ result'.op \in ReadingCalls
          => /\ b' = b
             /\ result'.kind = ReadOutcome(b', result').kind
             /\ result'.value = ReadOutcome(b', result').value
    /\ (result'.op = "Derivative" /\ result'.kind = Ok)
          => /\ derivative' = result'.value
             /\ Knots(derivative') = Knots(b')
    /\ result'.op \in {"WithControlPoints", "WithExtrapolation"}
          => derivative' = derivative
    /\ result'.op \in {"derivative.WithControlPoints",
                        "derivative.WithExtrapolation"}
          => b' = b

----------------------------------------------------------------------------
(* C16, C17.  gomlx.Evaluate against BSpline.Evaluate. *)

\* gomlx.Evaluate has been called with control points of the length b takes.
GomlxEvaluated ==
    /\ result.op = "gomlx.Evaluate"
    /\ Len(Arg(2)[1][1]) = NumControlPoints(b)

\* b.WithControlPoints(controlPoints).Evaluate(x)
ScalarEvaluate(s, controlPoints, x) ==
    Evaluate(WithControlPoints(s, controlPoints).after, x)

\* C16: for inputs [batchSize, numInputs] and control points [numInputs,
\* numOutputs, numControlPoints], gomlx.Evaluate returns an array
\* [batchSize, numOutputs, numInputs] whose entry [e, o, i], for inputs[e][i]
\* inside [expandedKnots[0], expandedKnots[last]), is what
\* b.WithControlPoints(controlPoints[i][o]).Evaluate(inputs[e][i]) returns,
\* for every degree >= 0; the first numControlPoints columns of the shifted
\* arrays are the basis functions, untouched by the padding of the shifts.
C16_BatchedMatchesScalar ==
    GomlxEvaluated
        => LET inputs == Arg(1)
               controlPoints == Arg(2)
               out == result.value
               batch == 1..Len(inputs)
               ins == 1..Len(controlPoints)
               outs == 1..Len(controlPoints[1])
           IN  /\ result.kind = Ok
               /\ Len(out) = Len(inputs)
               /\ \A e \in batch :
                     /\ Len(out[e]) = Len(controlPoints[1])
                     /\ \A o \in outs : Len(out[e][o]) = Len(controlPoints)
               /\ \A e \in batch, o \in outs, i \in ins :
                     InDomain(b, inputs[e][i])
                        => LET scalar == ScalarEvaluate(b, controlPoints[i][o],
                                                        inputs[e][i])
                           IN  scalar.kind = Ok /\ out[e][o][i] = scalar.value
               /\ \A e \in batch, i \in ins :
                     SubSeq(basisFunction(b, b.degree, inputs[e][i]),
                            1, NumControlPoints(b))
                        = BasisFunctions(b, inputs[e][i])

\* gomlx.Evaluate has returned on a spline of degree 2 for an input inside
\* the domain, and the entries of the two outputs of one input differ.
C16_Witness ==
    /\ GomlxEvaluated
    /\ result.kind = Ok
    /\ b.degree = 2
    /\ InDomain(b, Arg(1)[1][1])
    /\ FNe(result.value[1][1][1], result.value[1][2][1])
    /\ FNe(result.value[1][1][1], F(0))

\* C17: gomlx.Evaluate and BSpline.Evaluate agree on every input, those
\* outside the domain included: for inputs[e][i] below expandedKnots[0], or
\* at or above expandedKnots[last], entry [e, o, i] is the value
\* b.WithControlPoints(controlPoints[i][o]).Evaluate(inputs[e][i])
\* extrapolates under the extrapolation of b, zero, constant or linear.
\* (Stated for degree >= 1 and strictly increasing knots.)
C17_BatchedExtrapolates ==
    (/\ GomlxEvaluated
     /\ b.degree >= 1
     /\ StrictlyIncreasing(Knots(b)))
        => LET inputs == Arg(1)
               controlPoints == Arg(2)
               out == result.value
           IN  /\ result.kind = Ok
               /\ \A e \in 1..Len(inputs), o \in 1..Len(controlPoints[1]),
                     i \in 1..Len(controlPoints) :
                     ~InDomain(b, inputs[e][i])
                        => LET scalar == ScalarEvaluate(b, controlPoints[i][o],
                                                        inputs[e][i])
                           IN  scalar.kind = Ok /\ out[e][o][i] = scalar.value

====
